---- MODULE Spec2Model ----
(***************************************************************************)
(* Model of qvl_search.py: the QVLTrustaCrawler run (driver setup,         *)
(* navigation, table extraction, classification, summary, report) and      *)
(* main()'s exit code.                                                     *)
(*                                                                         *)
(* Text is a sequence of one-character strings, so that strip(), upper(),  *)
(* lower(), the substring test `in` and the capacity regex are computed    *)
(* and not assumed.  A product record (a Python dict) is a function from   *)
(* field names (texts) to values.                                          *)
(***************************************************************************)
EXTENDS Integers, Sequences, FiniteSets, TLC

VARIABLES pc, driver, cookie_banner, dom, results, success, exit_code, stages, console,
          json_file

vars ==
    <<pc, driver, cookie_banner, dom, results, success, exit_code, stages, console, json_file>>

----------------------------------------------------------------------------
(* Bounds of the model *)

\* most data rows of a multi-row table
MaxRows == 2

\* longest Capacity cell text enumerated character by character
MaxCapLen == 5

----------------------------------------------------------------------------
(* Text primitives: str.strip, str.upper, str.lower, `in` *)

Lowers == <<"a", "b", "c", "d", "e", "f", "g", "h", "i", "j", "k", "l", "m", "n", "o", "p", "q", "r", "s", "t", "u", "v", "w", "x", "y", "z">>

Uppers == <<"A", "B", "C", "D", "E", "F", "G", "H", "I", "J", "K", "L", "M", "N", "O", "P", "Q", "R", "S", "T", "U", "V", "W", "X", "Y", "Z">>

Digits == <<"0", "1", "2", "3", "4", "5", "6", "7", "8", "9">>

IsSpace(c) == c = " "

IsDigit(c) == \E i \in 1..Len(Digits) : Digits[i] = c

DigitVal(c) == (CHOOSE i \in 1..Len(Digits) : Digits[i] = c) - 1

UpperChar(c) ==
    IF \E i \in 1..Len(Lowers) : Lowers[i] = c
    THEN Uppers[CHOOSE i \in 1..Len(Lowers) : Lowers[i] = c]
    ELSE c

LowerChar(c) ==
    IF \E i \in 1..Len(Uppers) : Uppers[i] = c
    THEN Lowers[CHOOSE i \in 1..Len(Uppers) : Uppers[i] = c]
    ELSE c

upper(s) == [i \in 1..Len(s) |-> UpperChar(s[i])]

lower(s) == [i \in 1..Len(s) |-> LowerChar(s[i])]

RECURSIVE lstrip(_)
lstrip(s) == IF s # <<>> /\ IsSpace(Head(s)) THEN lstrip(Tail(s)) ELSE s

RECURSIVE rstrip(_)
rstrip(s) ==
    IF s # <<>> /\ IsSpace(s[Len(s)]) THEN rstrip(SubSeq(s, 1, Len(s) - 1)) ELSE s

strip(s) == rstrip(lstrip(s))

\* Python's `pat in s` for str
Contains(pat, s) ==
    \E i \in 1..(Len(s) - Len(pat) + 1) : SubSeq(s, i, i + Len(pat) - 1) = pat

\* dict.get(key, default)
Get(d, key, default) == IF key \in DOMAIN d THEN d[key] ELSE default

----------------------------------------------------------------------------
(* Field names and keywords of the source *)

F_ProductName == <<"P", "r", "o", "d", "u", "c", "t", " ", "N", "a", "m", "e">>

F_Vendor == <<"V", "e", "n", "d", "o", "r">>

F_Series == <<"S", "e", "r", "i", "e", "s">>

F_Capacity == <<"C", "a", "p", "a", "c", "i", "t", "y">>

F_Interface == <<"I", "n", "t", "e", "r", "f", "a", "c", "e">>

F_InterfaceSpeed == <<"I", "n", "t", "e", "r", "f", "a", "c", "e", " ", "S", "p", "e", "e", "d">>

F_FormFactor == <<"F", "o", "r", "m", " ", "F", "a", "c", "t", "o", "r">>

F_Other == <<"O", "t", "h", "e", "r">>

F_Remark == <<"R", "e", "m", "a", "r", "k">>

F_analysis == <<"a", "n", "a", "l", "y", "s", "i", "s">>

K_TRUSTA == <<"T", "R", "U", "S", "T", "A">>

K_T7P5 == <<"T", "7", "P", "5">>

K_TB == <<"T", "B">>

K_GB == <<"G", "B">>

K_gen5 == <<"g", "e", "n", "5">>

K_gen_5 == <<"g", "e", "n", " ", "5">>

K_nvme == <<"n", "v", "m", "e">>

K_vroc == <<"v", "r", "o", "c">>

K_Unknown == <<"U", "n", "k", "n", "o", "w", "n">>

K_dash == <<" ", "-", " ">>

----------------------------------------------------------------------------
(* analyze_trusta_product *)

\* A capacity is an exact decimal num/den, den a power of ten (the float the
\* source computes, without rounding).
Zero == [num |-> 0, den |-> 1]

RECURSIVE Pow10(_)
Pow10(n) == IF n = 0 THEN 1 ELSE 10 * Pow10(n - 1)

RECURSIVE DigitsValue(_)
DigitsValue(ds) ==
    IF ds = <<>> THEN 0
    ELSE 10 * DigitsValue(SubSeq(ds, 1, Len(ds) - 1)) + DigitVal(ds[Len(ds)])

RECURSIVE Normalise(_)
Normalise(q) ==
    IF q.den > 1 /\ q.num % 10 = 0
    THEN Normalise([num |-> q.num \div 10, den |-> q.den \div 10])
    ELSE q

\* the longest run of digits of s that starts at position i
RECURSIVE DigitRun(_, _)
DigitRun(s, i) ==
    IF i <= Len(s) /\ IsDigit(s[i]) THEN <<s[i]>> \o DigitRun(s, i + 1) ELSE <<>>

\* re.findall(r'(\d+\.?\d*)', s): the leftmost match, as <<match>>, or <<>>
\* when nothing matches.  A match is digits, an optional ".", digits.
FindAllFirst(s) ==
    IF \E i \in 1..Len(s) : IsDigit(s[i])
    THEN LET start == CHOOSE i \in 1..Len(s) :
                          IsDigit(s[i]) /\ \A j \in 1..(i - 1) : ~IsDigit(s[j])
             int   == DigitRun(s, start)
             after == start + Len(int)
             dot   == after <= Len(s) /\ s[after] = "."
             frac  == IF dot THEN DigitRun(s, after + 1) ELSE <<>>
         IN  << [int |-> int, frac |-> frac] >>
    ELSE <<>>

\* float(m) of a match
Float(m) ==
    Normalise([num |-> DigitsValue(m.int \o m.frac), den |-> Pow10(Len(m.frac))])

\* Fault variant of ParseCapacity: the try/except around findall(...)[0] is
\* gone, so the IndexError of an empty findall leaves the function.
ParseCapacityUnguarded(capacity) ==
    LET found == FindAllFirst(capacity)
    IN  IF Contains(K_TB, upper(capacity)) \/ Contains(K_GB, upper(capacity))
        THEN IF found = <<>>
             THEN [raised |-> TRUE, tb |-> Zero]
             ELSE IF Contains(K_TB, upper(capacity))
                  THEN [raised |-> FALSE, tb |-> Float(found[1])]
                  ELSE [raised |-> FALSE,
                        tb |-> Normalise([num |-> Float(found[1]).num,
                                          den |-> Float(found[1]).den * 1000])]
        ELSE [raised |-> FALSE, tb |-> Zero]

\* lines 174-186: the TB branch, else the GB branch, each in try/except: pass.
\* raised tells whether an exception leaves analyze_trusta_product.
ParseCapacity(capacity) ==
    LET found == FindAllFirst(capacity)
    IN  IF Contains(K_TB, upper(capacity))
        THEN IF found = <<>>
             THEN [raised |-> FALSE, tb |-> Zero]
             ELSE [raised |-> FALSE, tb |-> Float(found[1])]
        ELSE IF Contains(K_GB, upper(capacity))
        THEN IF found = <<>>
             THEN [raised |-> FALSE, tb |-> Zero]
             ELSE [raised |-> FALSE,
                   tb |-> Normalise([num |-> Float(found[1]).num,
                                     den |-> Float(found[1]).den * 1000])]
        ELSE [raised |-> FALSE, tb |-> Zero]

AnalysisRaises(product_data) ==
    ParseCapacity(Get(product_data, F_Capacity, <<>>)).raised

analyze_trusta_product(product_data) ==
    LET interface_speed == lower(Get(product_data, F_InterfaceSpeed, <<>>))
        interface       == lower(Get(product_data, F_Interface, <<>>))
        other           == lower(Get(product_data, F_Other, <<>>))
        remark          == lower(Get(product_data, F_Remark, <<>>))
    IN  [is_gen5           |-> Contains(K_gen5, interface_speed)
                               \/ Contains(K_gen_5, interface_speed),
         is_nvme           |-> Contains(K_nvme, interface),
         form_factor_type  |-> Get(product_data, F_FormFactor, <<>>),
         capacity_tb       |-> ParseCapacity(Get(product_data, F_Capacity, <<>>)).tb,
         interface_details |-> Get(product_data, F_Interface, <<>>) \o K_dash
                               \o Get(product_data, F_InterfaceSpeed, <<>>),
         vroc_support      |-> Contains(K_vroc, other) \/ Contains(K_vroc, remark)]

----------------------------------------------------------------------------
(* extract_qvl_table_data *)

\* Fault variant of IsTrustaProduct: the test is case-sensitive.
IsTrustaProductCaseSensitive(product_data) ==
    LET vendor       == Get(product_data, F_Vendor, <<>>)
        product_name == Get(product_data, F_ProductName, <<>>)
        series       == Get(product_data, F_Series, <<>>)
    IN  \/ Contains(K_TRUSTA, vendor)
        \/ Contains(K_TRUSTA, product_name)
        \/ Contains(K_T7P5, product_name)
        \/ Contains(K_T7P5, series)

\* lines 129-134: the keyword test
IsTrustaProduct(product_data) ==
    LET vendor       == upper(Get(product_data, F_Vendor, <<>>))
        product_name == upper(Get(product_data, F_ProductName, <<>>))
        series       == upper(Get(product_data, F_Series, <<>>))
    IN  \/ Contains(K_TRUSTA, vendor)
        \/ Contains(K_TRUSTA, product_name)
        \/ Contains(K_T7P5, product_name)
        \/ Contains(K_T7P5, series)

\* lines 100-103: the trimmed header texts
Headers(header_cells) == [j \in 1..Len(header_cells) |-> strip(header_cells[j])]

\* Fault variant of RowRecord: the cell text is stored untrimmed.
RowRecordRaw(headers, cells) ==
    [k \in {headers[j] : j \in 1..Len(headers)} |->
        cells[CHOOSE j \in 1..Len(headers) :
                 headers[j] = k /\ \A j2 \in 1..Len(headers) : headers[j2] = k => j2 <= j]]

\* lines 119-122: product_data[headers[i]] = cell.text.strip() for i < len(headers);
\* a later column of the same name overwrites an earlier one.
RowRecord(headers, cells) ==
    [k \in {headers[j] : j \in 1..Len(headers)} |->
        strip(cells[CHOOSE j \in 1..Len(headers) :
                 headers[j] = k /\ \A j2 \in 1..Len(headers) : headers[j2] = k => j2 <= j])]

\* product_data["analysis"] = ...
WithAnalysis(product_data, analysis) ==
    [k \in DOMAIN product_data \cup {F_analysis} |->
        IF k = F_analysis THEN analysis ELSE product_data[k]]

\* Fault variant of ProcessRow: a matching record is put at the front of
\* trusta_products.
ProcessRowPrepend(headers, cells, acc) ==
    IF Len(cells) < Len(headers) \/ strip(cells[1]) = <<>>
    THEN acc
    ELSE LET product_data == RowRecord(headers, cells)
         IN  IF Get(product_data, F_ProductName, <<>>) = <<>>
             THEN acc
             ELSE IF IsTrustaProduct(product_data)
                  THEN IF AnalysisRaises(product_data)
                       THEN [acc EXCEPT !.raised = TRUE]
                       ELSE LET p == WithAnalysis(product_data,
                                                  analyze_trusta_product(product_data))
                            IN  [all    |-> Append(acc.all, p),
                                 trusta |-> <<p>> \o acc.trusta,
                                 raised |-> FALSE]
                  ELSE [acc EXCEPT !.all = Append(@, product_data)]

\* lines 113-138: one pass of the loop body.  product_data is one dict object:
\* the "analysis" key set at line 136 is also seen through all_products.
ProcessRow(headers, cells, acc) ==
    IF Len(cells) < Len(headers) \/ strip(cells[1]) = <<>>
    THEN acc
    ELSE LET product_data == RowRecord(headers, cells)
         IN  IF Get(product_data, F_ProductName, <<>>) = <<>>
             THEN acc
             ELSE IF IsTrustaProduct(product_data)
                  THEN IF AnalysisRaises(product_data)
                       THEN [acc EXCEPT !.raised = TRUE]
                       ELSE LET p == WithAnalysis(product_data,
                                                  analyze_trusta_product(product_data))
                            IN  [all    |-> Append(acc.all, p),
                                 trusta |-> Append(acc.trusta, p),
                                 raised |-> FALSE]
                  ELSE [acc EXCEPT !.all = Append(@, product_data)]

\* lines 110-138: the loop over the rows, left at the first exception
RECURSIVE ExtractRows(_, _, _)
ExtractRows(headers, rows, acc) ==
    IF rows = <<>> \/ acc.raised
    THEN acc
    ELSE ExtractRows(headers, Tail(rows), ProcessRow(headers, Head(rows), acc))

Extracted(d) ==
    ExtractRows(Headers(d.headers), d.rows, [all |-> <<>>, trusta |-> <<>>, raised |-> FALSE])

----------------------------------------------------------------------------
(* generate_qvl_summary *)

AddQ(a, b) ==
    LET den == IF a.den >= b.den THEN a.den ELSE b.den
    IN  Normalise([num |-> a.num * (den \div a.den) + b.num * (den \div b.den),
                   den |-> den])

\* Fault variant of VendorCounts: a vendor seen again is reset to 1.
RECURSIVE VendorCountsReset(_, _)
VendorCountsReset(products, vendor_counts) ==
    IF products = <<>>
    THEN vendor_counts
    ELSE LET vendor == Get(Head(products), F_Vendor, K_Unknown)
         IN  VendorCountsReset(Tail(products),
                 [v \in DOMAIN vendor_counts \cup {vendor} |->
                     IF v = vendor THEN 1 ELSE vendor_counts[v]])

\* lines 216-219
RECURSIVE VendorCounts(_, _)
VendorCounts(products, vendor_counts) ==
    IF products = <<>>
    THEN vendor_counts
    ELSE LET vendor == Get(Head(products), F_Vendor, K_Unknown)
         IN  VendorCounts(Tail(products),
                 [v \in DOMAIN vendor_counts \cup {vendor} |->
                     IF v = vendor THEN Get(vendor_counts, vendor, 0) + 1
                     ELSE vendor_counts[v]])

\* lines 202-214: gen5_count, total_capacity, capacity_options
RECURSIVE TrustaTotals(_, _)
TrustaTotals(products, acc) ==
    IF products = <<>>
    THEN acc
    ELSE LET analysis == Head(products)[F_analysis]
             capacity == analysis.capacity_tb
         IN  TrustaTotals(Tail(products),
                 [gen5_count       |-> acc.gen5_count + (IF analysis.is_gen5 THEN 1 ELSE 0),
                  total_capacity   |-> IF capacity.num > 0
                                       THEN AddQ(acc.total_capacity, capacity)
                                       ELSE acc.total_capacity,
                  capacity_options |-> IF capacity.num > 0
                                       THEN acc.capacity_options \cup {capacity}
                                       ELSE acc.capacity_options])

\* lines 221-237.  trusta_capacity_options is the set of distinct capacities;
\* their rendering as sorted "<value>TB" strings is left out.
QvlSummary(r) ==
    LET totals == TrustaTotals(r.trusta_products_found,
                      [gen5_count |-> 0, total_capacity |-> Zero, capacity_options |-> {}])
    IN  [total_nvme_products_in_qvl |-> Len(r.all_nvme_products),
         trusta_products_found      |-> Len(r.trusta_products_found),
         trusta_gen5_products       |-> totals.gen5_count,
         trusta_capacity_options    |-> totals.capacity_options,
         total_trusta_capacity_tb   |-> totals.total_capacity,
         vendor_distribution        |-> VendorCounts(r.all_nvme_products, <<>>)]

SearchSummary(r) ==
    [search_successful |-> Len(r.trusta_products_found) > 0]

----------------------------------------------------------------------------
(* The pages the browser can render *)

SeqsUpTo(S, n) == UNION {[1..k -> S] : k \in 0..n}

\* no table whose header has a "Product Name" cell
DomNoTable == [found |-> FALSE, headers |-> <<>>, rows |-> <<>>]

Table(header_cells, rows) == [found |-> TRUE, headers |-> header_cells, rows |-> rows]

\* Multi-row tables of two columns: blank, padded and keyword cells; rows
\* with as many cells as headers, with one cell more, and with one cell less;
\* a column name twice, a column named "analysis".
TableLayouts ==
    { <<F_ProductName, F_Vendor>>, <<F_Vendor, F_ProductName>>,
      <<F_ProductName, F_Series>>, <<F_ProductName, F_ProductName>>,
      <<F_ProductName, F_analysis>> }

TableCells == { <<" ">>, <<" ", "a">>, K_T7P5 }

TableRows ==
    [1..2 -> TableCells]
    \cup {r \o << <<"x">> >> : r \in [1..2 -> TableCells]}
    \cup [1..1 -> TableCells]

TableDoms ==
    {DomNoTable} \cup {Table(h, r) : h \in TableLayouts, r \in SeqsUpTo(TableRows, MaxRows)}

\* One-row tables for the keyword test: each keyword in upper, lower and
\* mixed case, inside other text, cut short and split, in each of the fields.
ClassifyLayouts ==
    { <<F_ProductName>>, <<F_Vendor, F_ProductName>>, <<F_ProductName, F_Series>>,
      << <<" ", "V", "e", "n", "d", "o", "r", " ">>, F_ProductName, F_Series >> }

ClassifyCells ==
    { <<"T", "R", "U", "S", "T", "A", " ", "I", "n", "c">>,
      <<"x", "T", "r", "U", "s", "T", "a">>,
      K_T7P5,
      <<"X", "Y", "Z", " ", "t", "7", "p", "5", "-", "2">>,
      <<"T", "R", "U", "S", "T">>,
      <<"T", "7", " ", "P", "5">>,
      <<"S", "a", "m">>,
      <<>> }

ClassifyDoms ==
    {DomNoTable}
    \cup {Table(h, <<r>>) : h \in ClassifyLayouts, r \in SeqsUpTo(ClassifyCells, 3)}

\* One-row tables of a matching product for the analysis: every Capacity text
\* over CapChars up to MaxCapLen characters, and the other analysed fields.
CapChars == {"t", "G", "B", "1", ".", "-"}

SpecCells ==
    { <<"P", "C", "I", "e", " ", "G", "e", "n", "5">>, <<"G", "E", "N", " ", "5">>,
      <<"N", "V", "M", "e">>, <<"V", "R", "O", "C", " ", "o", "k">>, <<"U", ".", "2">> }

AnalyzeDoms ==
    {DomNoTable}
    \cup {Table(<<F_ProductName, F_Capacity>>, << <<K_T7P5, c>> >>) :
            c \in SeqsUpTo(CapChars, MaxCapLen)}
    \cup {Table(<<F_ProductName, f>>, << <<K_T7P5, c>> >>) :
            f \in {F_Interface, F_InterfaceSpeed, F_FormFactor, F_Other, F_Remark},
            c \in SpecCells}
    \cup {Table(<<F_ProductName, F_Interface, F_InterfaceSpeed>>, << <<K_T7P5, c, d>> >>) :
            c \in SpecCells, d \in SpecCells}

----------------------------------------------------------------------------
(* The run: QVLTrustaCrawler.__init__, run_qvl_crawler, main *)

Stage(name, ok) == [stage |-> name, ok |-> ok]

Init ==
    /\ pc = "setup_driver"
    /\ driver = "none"
    /\ cookie_banner = "not reached"
    /\ dom = DomNoTable
    /\ results = [trusta_products_found |-> <<>>,
                  all_nvme_products     |-> <<>>,
                  qvl_summary           |-> <<>>,
                  search_summary        |-> <<>>,
                  errors                |-> <<>>]
    /\ success = FALSE
    /\ exit_code = -1
    /\ stages = <<>>
    /\ console = <<>>
    /\ json_file = <<>>

\* lines 49-52, 245: webdriver.Chrome(...) returns
SetupDriverOk ==
    /\ pc = "setup_driver"
    /\ driver' = "open"
    /\ stages' = Append(stages, Stage("setup_driver", TRUE))
    /\ pc' = "navigate_to_qvl_nvme"
    /\ UNCHANGED <<cookie_banner, dom, results, success, exit_code, console, json_file>>

\* lines 53-55, 245-246: webdriver.Chrome(...) raises; run_qvl_crawler
\* returns False before its try statement
SetupDriverFail ==
    /\ pc = "setup_driver"
    /\ stages' = Append(stages, Stage("setup_driver", FALSE))
    /\ success' = FALSE
    /\ pc' = "main"
    /\ UNCHANGED <<cookie_banner, driver, dom, results, exit_code, console, json_file>>

CookieOutcomes == {"accepted", "timeout", "error"}

\* Fault variant of accept_cookies: an error other than the timeout is
\* recorded in results["errors"].
accept_cookies_recording(outcome, errors) ==
    IF outcome = "error" THEN Append(errors, "cookies") ELSE errors

\* lines 57-69: the click, the TimeoutException and any other exception are
\* logged only
accept_cookies(outcome, errors) == errors

\* lines 73-87, 249: the page loads and a table element is present
NavigateOk(Doms, Cookies) ==
    /\ pc = "navigate_to_qvl_nvme"
    /\ \E cookie \in Cookies, d \in Doms :
          /\ cookie_banner' = cookie
          /\ dom' = d
          /\ results' = [results EXCEPT !.errors = accept_cookies(cookie, @)]
    /\ stages' = Append(stages, Stage("navigate_to_qvl_nvme", TRUE))
    /\ pc' = "extract_qvl_table_data"
    /\ UNCHANGED <<driver, success, exit_code, console, json_file>>

\* lines 89-93, 249-250: driver.get raises (the cookie step not reached), or
\* the wait for a table element times out after the cookie step
NavigateFail ==
    /\ pc = "navigate_to_qvl_nvme"
    /\ \/ /\ cookie_banner' = cookie_banner
          /\ results' = [results EXCEPT !.errors = Append(@, "navigate")]
       \/ \E cookie \in CookieOutcomes :
             /\ cookie_banner' = cookie
             /\ results' = [results EXCEPT
                               !.errors = Append(accept_cookies(cookie, @), "navigate")]
    /\ stages' = Append(stages, Stage("navigate_to_qvl_nvme", FALSE))
    /\ success' = FALSE
    /\ pc' = "finally"
    /\ UNCHANGED <<driver, dom, exit_code, console, json_file>>

\* lines 97-144, 252
ExtractOk ==
    /\ pc = "extract_qvl_table_data"
    /\ dom.found
    /\ ~Extracted(dom).raised
    /\ results' = [results EXCEPT !.all_nvme_products = Extracted(dom).all,
                                  !.trusta_products_found = Extracted(dom).trusta]
    /\ stages' = Append(stages, Stage("extract_qvl_table_data", TRUE))
    /\ pc' = "generate_qvl_summary"
    /\ UNCHANGED <<cookie_banner, driver, dom, success, exit_code, console, json_file>>

\* lines 98, 146-150, 252-253: the table is not found, or an exception leaves
\* the loop
ExtractFail ==
    /\ pc = "extract_qvl_table_data"
    /\ ~dom.found \/ Extracted(dom).raised
    /\ results' = [results EXCEPT !.errors = Append(@, "extract")]
    /\ stages' = Append(stages, Stage("extract_qvl_table_data", FALSE))
    /\ success' = FALSE
    /\ pc' = "finally"
    /\ UNCHANGED <<cookie_banner, driver, dom, exit_code, console, json_file>>

\* lines 197-239, 255-257
GenerateSummary ==
    /\ pc = "generate_qvl_summary"
    /\ results' = [results EXCEPT !.qvl_summary = QvlSummary(results),
                                  !.search_summary = SearchSummary(results)]
    /\ stages' = Append(stages, Stage("generate_qvl_summary", TRUE))
    /\ success' = TRUE
    /\ pc' = "finally"
    /\ UNCHANGED <<cookie_banner, driver, dom, exit_code, console, json_file>>

\* lines 259-263: an exception leaves generate_qvl_summary (the environment's:
\* no input of the loop raises one)
CrawlException ==
    /\ pc = "generate_qvl_summary"
    /\ results' = [results EXCEPT !.errors = Append(@, "crawl")]
    /\ stages' = Append(stages, Stage("generate_qvl_summary", FALSE))
    /\ success' = FALSE
    /\ pc' = "finally"
    /\ UNCHANGED <<cookie_banner, driver, dom, exit_code, console, json_file>>

\* Fault variant of Finally: the browser is closed on the successful path only.
FinallyOnSuccess ==
    /\ pc = "finally"
    /\ driver' = IF driver # "none" /\ success THEN "quit" ELSE driver
    /\ pc' = "main"
    /\ UNCHANGED <<cookie_banner, dom, results, success, exit_code, stages, console, json_file>>

\* lines 265-268: runs on every way out of the try statement
Finally ==
    /\ pc = "finally"
    /\ driver' = IF driver # "none" THEN "quit" ELSE driver
    /\ pc' = "main"
    /\ UNCHANGED <<cookie_banner, dom, results, success, exit_code, stages, console, json_file>>

\* Fault variant of DisplayResults: the report is printed whatever
\* run_qvl_crawler returned.
DisplayResultsAlways ==
    /\ pc = "main"
    /\ console' = << [trusta_products_found |-> results.trusta_products_found,
                     qvl_summary           |-> results.qvl_summary,
                     search_summary        |-> results.search_summary,
                     errors                |-> results.errors] >>
    /\ stages' = Append(stages, Stage("display_results", TRUE))
    /\ pc' = "save_results"
    /\ UNCHANGED <<cookie_banner, driver, dom, results, success, exit_code, json_file>>

\* lines 270-350, 372-373
DisplayResults ==
    /\ pc = "main"
    /\ success
    /\ console' = << [trusta_products_found |-> results.trusta_products_found,
                     qvl_summary           |-> results.qvl_summary,
                     search_summary        |-> results.search_summary,
                     errors                |-> results.errors] >>
    /\ stages' = Append(stages, Stage("display_results", TRUE))
    /\ pc' = "save_results"
    /\ UNCHANGED <<cookie_banner, driver, dom, results, success, exit_code, json_file>>

\* lines 352-360, 374: the file is written, or the error is logged only
SaveResults ==
    /\ pc = "save_results"
    /\ \E written \in BOOLEAN :
          /\ json_file' = IF written THEN <<results>> ELSE <<>>
          /\ stages' = Append(stages, Stage("save_results", written))
    /\ pc' = "return"
    /\ UNCHANGED <<cookie_banner, driver, dom, results, success, exit_code, console>>

\* Fault variant of ReturnZero: a run that found no product exits with 1.
ReturnZeroOnlyIfFound ==
    /\ pc = "return"
    /\ exit_code' = IF results.trusta_products_found = <<>> THEN 1 ELSE 0
    /\ pc' = "done"
    /\ UNCHANGED <<cookie_banner, driver, dom, results, success, stages, console, json_file>>

\* line 379
ReturnZero ==
    /\ pc = "return"
    /\ exit_code' = 0
    /\ pc' = "done"
    /\ UNCHANGED <<cookie_banner, driver, dom, results, success, stages, console, json_file>>

\* lines 375-377
ReturnOne ==
    /\ pc = "main"
    /\ ~success
    /\ exit_code' = 1
    /\ pc' = "done"
    /\ UNCHANGED <<cookie_banner, driver, dom, results, success, stages, console, json_file>>

Step(Doms, Cookies) ==
    \/ SetupDriverOk
    \/ SetupDriverFail
    \/ NavigateOk(Doms, Cookies)
    \/ NavigateFail
    \/ ExtractOk
    \/ ExtractFail
    \/ GenerateSummary
    \/ CrawlException
    \/ Finally
    \/ DisplayResults
    \/ SaveResults
    \/ ReturnZero
    \/ ReturnOne

\* the whole run over the multi-row tables
Next == Step(TableDoms, CookieOutcomes)

Spec == Init /\ [][Next]_vars

\* the run over the one-row tables of the keyword test, no cookie banner shown
NextClassify == Step(ClassifyDoms, {"timeout"})

SpecClassify == Init /\ [][NextClassify]_vars

\* the run over the one-row tables of the analysis, no cookie banner shown
NextAnalyze == Step(AnalyzeDoms, {"timeout"})

SpecAnalyze == Init /\ [][NextAnalyze]_vars

----------------------------------------------------------------------------
(* Properties *)

StageOk(name) == \E i \in DOMAIN stages : stages[i] = Stage(name, TRUE)

StageFailed(name) == \E i \in DOMAIN stages : stages[i] = Stage(name, FALSE)

CrawlStages ==
    {"setup_driver", "navigate_to_qvl_nvme", "extract_qvl_table_data", "generate_qvl_summary"}

AllCrawlStagesOk == \A n \in CrawlStages : StageOk(n)

\* run_qvl_crawler has returned to main
CrawlerReturned == pc \in {"main", "save_results", "return", "done"}

\* C1: main returns 0 exactly when driver setup, navigation, extraction and
\* summary generation all succeeded, also when no record matched, and returns
\* 1 when any of them failed; it returns nothing else.
C1_ExitCode ==
    /\ pc # "done" => exit_code = -1
    /\ pc = "done" => /\ exit_code \in {0, 1}
                      /\ exit_code = 0 <=> AllCrawlStagesOk
                      /\ exit_code = 1 <=> \E n \in CrawlStages : StageFailed(n)

C1_Witness ==
    /\ pc = "done"
    /\ exit_code = 0
    /\ Len(results.all_nvme_products) > 0
    /\ results.trusta_products_found = <<>>

\* C2: when run_qvl_crawler has returned, on whichever path, no browser is
\* open: a driver that was created has been quit.
C2_DriverReleased ==
    CrawlerReturned =>
        /\ driver # "open"
        /\ StageOk("setup_driver") <=> driver = "quit"

C2_Witness ==
    /\ pc = "main"
    /\ StageFailed("extract_qvl_table_data")
    /\ driver = "quit"

\* C3: whenever main returns 1, results["errors"] is non-empty.
C3_FailureLogged == exit_code = 1 => results.errors # <<>>

SameLetter(a, b) ==
    a = b \/ \E n \in 1..Len(Lowers) : {a, b} = {Lowers[n], Uppers[n]}

\* the keyword occurs in the text, letter case ignored
ContainsIgnoringCase(keyword, text) ==
    \E i \in 1..(Len(text) - Len(keyword) + 1) :
        \A k \in 1..Len(keyword) : SameLetter(text[i + k - 1], keyword[k])

FieldText(record, field) == IF field \in DOMAIN record THEN record[field] ELSE <<>>

KeywordMatch(record) ==
    \/ ContainsIgnoringCase(K_TRUSTA, FieldText(record, F_Vendor))
    \/ ContainsIgnoringCase(K_TRUSTA, FieldText(record, F_ProductName))
    \/ ContainsIgnoringCase(K_T7P5, FieldText(record, F_ProductName))
    \/ ContainsIgnoringCase(K_T7P5, FieldText(record, F_Series))

\* record[field] = text, where "analysis" holds an analysis, not a text, in
\* a record that matched
FieldIs(record, field, text) ==
    IF field = F_analysis /\ KeywordMatch(record) THEN FALSE ELSE record[field] = text

\* The table the extraction read: H the trimmed header texts, R the rows.
H == Headers(dom.headers)

R == dom.rows

ExtractDone == StageOk("extract_qvl_table_data")

HeaderSet == {H[j] : j \in 1..Len(H)}

\* C4 as stated: if every row has at least |H| cells and a non-empty first
\* cell, all_nvme_products holds |R| records in row order, record i having
\* |H| fields with record[i][H[j]] = R[i][j].  Cell texts are read trimmed.
C4_Original ==
    (ExtractDone /\ \A i \in 1..Len(R) : Len(R[i]) >= Len(H) /\ strip(R[i][1]) # <<>>) =>
        /\ Len(results.all_nvme_products) = Len(R)
        /\ \A i \in 1..Len(R) :
              /\ Cardinality(DOMAIN results.all_nvme_products[i] \ {F_analysis}) = Len(H)
              /\ \A j \in 1..Len(H) :
                    FieldIs(results.all_nvme_products[i], H[j], strip(R[i][j]))

\* What C4 needs of the table: distinct column names, none of them
\* "analysis", and in every row at least |H| cells, a first cell and a
\* "Product Name" cell that are not blank.
C4_Precondition ==
    /\ \A j, k \in 1..Len(H) : H[j] = H[k] => j = k
    /\ F_analysis \notin HeaderSet
    /\ \A i \in 1..Len(R) :
          /\ Len(R[i]) >= Len(H)
          /\ strip(R[i][1]) # <<>>
          /\ \E j \in 1..Len(H) : H[j] = F_ProductName /\ strip(R[i][j]) # <<>>

\* C4, amended: under C4_Precondition a successful extraction stores |R|
\* records in row order, record i holding under each column name H[j] the
\* trimmed text of R[i][j] and no other field but "analysis".
C4_Amended ==
    (ExtractDone /\ C4_Precondition) =>
        /\ Len(results.all_nvme_products) = Len(R)
        /\ \A i \in 1..Len(R) :
              /\ DOMAIN results.all_nvme_products[i] \ {F_analysis} = HeaderSet
              /\ \A j \in 1..Len(H) :
                    results.all_nvme_products[i][H[j]] = strip(R[i][j])

C4_Witness ==
    /\ ExtractDone
    /\ C4_Precondition
    /\ Len(R) = 2
    /\ Len(results.all_nvme_products) = 2
    /\ \E i \in 1..Len(R) : Len(R[i]) > Len(H)
    /\ \E i \in 1..Len(R) : \E j \in 1..Len(H) : R[i][j] # strip(R[i][j])

\* the rows that pass both gates of the loop
ValidRow(cells) ==
    /\ Len(cells) >= Len(H)
    /\ strip(cells[1]) # <<>>
    /\ \E j \in 1..Len(H) :
          /\ H[j] = F_ProductName
          /\ \A k \in 1..Len(H) : H[k] = F_ProductName => k <= j
          /\ strip(cells[j]) # <<>>

\* a = b for two product records; the fields read from the table are
\* compared first, and they decide whether "analysis" holds an analysis
SameRecord(a, b) ==
    /\ DOMAIN a = DOMAIN b
    /\ \A k \in DOMAIN a \ {F_analysis} : a[k] = b[k]
    /\ F_analysis \in DOMAIN a => a[F_analysis] = b[F_analysis]

\* C5: after a successful extraction trusta_products_found is a subsequence
\* of all_nvme_products (strictly increasing positions), and
\* all_nvme_products holds one record for every valid row, matching or not.
C5_Subsequence ==
    ExtractDone =>
        LET all    == results.all_nvme_products
            trusta == results.trusta_products_found
        IN  /\ Len(all) = Cardinality({i \in 1..Len(R) : ValidRow(R[i])})
            /\ \E f \in [1..Len(trusta) -> 1..Len(all)] :
                  /\ \A k \in 1..Len(trusta) : SameRecord(trusta[k], all[f[k]])
                  /\ \A k, l \in 1..Len(trusta) : k < l => f[k] < f[l]

C5_Witness ==
    /\ ExtractDone
    /\ Len(results.all_nvme_products) = 2
    /\ Len(results.trusta_products_found) = 2
    /\ results.trusta_products_found[1] # results.trusta_products_found[2]

RECURSIVE SumOver(_, _)
SumOver(f, S) ==
    IF S = {} THEN 0
    ELSE LET x == CHOOSE y \in S : TRUE IN f[x] + SumOver(f, S \ {x})

VendorOf(record) == IF F_Vendor \in DOMAIN record THEN record[F_Vendor] ELSE K_Unknown

SummaryDone == StageOk("generate_qvl_summary")

\* C6: after generate_qvl_summary the counts of vendor_distribution sum to
\* total_nvme_products_in_qvl, which is the length of all_nvme_products, and
\* each vendor's count is the number of records with that Vendor value
\* ("Unknown" for a record without a Vendor field).
C6_VendorDistribution ==
    SummaryDone =>
        LET all == results.all_nvme_products
            vd  == results.qvl_summary.vendor_distribution
        IN  /\ results.qvl_summary.total_nvme_products_in_qvl = Len(all)
            /\ SumOver(vd, DOMAIN vd) = Len(all)
            /\ DOMAIN vd = {VendorOf(all[i]) : i \in 1..Len(all)}
            /\ \A v \in DOMAIN vd :
                  vd[v] = Cardinality({i \in 1..Len(all) : VendorOf(all[i]) = v})

C6_Witness ==
    /\ SummaryDone
    /\ Len(results.all_nvme_products) = 2
    /\ DOMAIN results.qvl_summary.vendor_distribution = {K_Unknown}

StageOrder ==
    <<"setup_driver", "navigate_to_qvl_nvme", "extract_qvl_table_data",
      "generate_qvl_summary", "display_results", "save_results">>

\* C7: the stages run in the order of StageOrder, each at most once, a stage
\* only after the stage before it succeeded; after a failed stage nothing is
\* printed and no JSON file is written.
C7_StageOrder ==
    /\ Len(stages) <= Len(StageOrder)
    /\ \A i \in 1..Len(stages) :
          /\ stages[i].stage = StageOrder[i]
          /\ i > 1 => stages[i - 1].ok
    /\ (\E n \in CrawlStages : StageFailed(n)) => console = <<>> /\ json_file = <<>>

C7_Witness ==
    /\ pc = "done"
    /\ StageFailed("navigate_to_qvl_nvme")
    /\ Len(stages) = 2
    /\ console = <<>>
    /\ json_file = <<>>

\* C8: a record of all_nvme_products is in trusta_products_found if and only
\* if Vendor or Product Name contains "TRUSTA" or Product Name or Series
\* contains "T7P5", letter case ignored, a missing field being empty text.
C8_Membership ==
    ExtractDone =>
        \A i \in 1..Len(results.all_nvme_products) :
            (\E k \in 1..Len(results.trusta_products_found) :
                SameRecord(results.trusta_products_found[k], results.all_nvme_products[i]))
            <=> KeywordMatch(results.all_nvme_products[i])

C8_Witness ==
    /\ ExtractDone
    /\ Len(results.trusta_products_found) = 1
    /\ F_Vendor \notin DOMAIN results.trusta_products_found[1]
    /\ F_Series \in DOMAIN results.trusta_products_found[1]
    /\ ~ContainsIgnoringCase(K_T7P5, results.trusta_products_found[1][F_ProductName])
    /\ ~Contains(K_T7P5, results.trusta_products_found[1][F_Series])
    /\ ContainsIgnoringCase(K_T7P5, results.trusta_products_found[1][F_Series])

HasDigit(text) == \E i \in 1..Len(text) : IsDigit(text[i])

\* a = b / 1000, as decimals
IsThousandth(a, b) == a.num * b.den * 1000 = b.num * a.den

\* C9: analyze_trusta_product raises for no record (the extraction of a table
\* that was found never fails); capacity_tb is >= 0; it is 0 when the Capacity
\* text has neither "TB" nor "GB" (letter case ignored) or has no digit;
\* with a digit, "TB" gives the first number, and "GB" without "TB" gives a
\* thousandth of it.
C9_Analysis ==
    /\ StageFailed("extract_qvl_table_data") => ~dom.found
    /\ ExtractDone =>
          \A k \in 1..Len(results.trusta_products_found) :
              LET capacity == FieldText(results.trusta_products_found[k], F_Capacity)
                  tb       == results.trusta_products_found[k][F_analysis].capacity_tb
                  hasTB    == ContainsIgnoringCase(K_TB, capacity)
                  hasGB    == ContainsIgnoringCase(K_GB, capacity)
              IN  /\ tb.num >= 0 /\ tb.den > 0
                  /\ (~hasTB /\ ~hasGB) \/ ~HasDigit(capacity) => tb.num = 0
                  /\ HasDigit(capacity) /\ hasTB =>
                        tb = Float(FindAllFirst(capacity)[1])
                  /\ HasDigit(capacity) /\ ~hasTB /\ hasGB =>
                        IsThousandth(tb, Float(FindAllFirst(capacity)[1]))

C9_Witness ==
    /\ ExtractDone
    /\ Len(results.trusta_products_found) = 1
    /\ F_Capacity \in DOMAIN results.trusta_products_found[1]
    /\ ContainsIgnoringCase(K_TB, results.trusta_products_found[1][F_Capacity])
    /\ ContainsIgnoringCase(K_GB, results.trusta_products_found[1][F_Capacity])
    /\ results.trusta_products_found[1][F_analysis].capacity_tb.num > 0

\* C10: whenever display_results or save_results runs, results["errors"] is
\* empty, so the report and the JSON document carry an empty errors list,
\* also after a failed cookie-banner step; an error is appended only on a
\* path on which run_qvl_crawler returns False.
C10_NoErrorsReported ==
    /\ (CrawlerReturned /\ results.errors # <<>>) => ~success
    /\ (pc \in {"save_results", "return"} \/ StageOk("display_results")) =>
          results.errors = <<>>
    /\ console # <<>> => console[1].errors = <<>>
    /\ json_file # <<>> => json_file[1].errors = <<>>

C10_Witness ==
    /\ cookie_banner = "error"
    /\ console # <<>>
    /\ json_file # <<>>

====
